---- MODULE Spec2Model ----
(***************************************************************************)
(* Authentication subsystem of the Online Bookstore API.                   *)
(*                                                                         *)
(* The Identity Store is the PostgreSQL database behind PrismaService: the *)
(* "user" and "oauthaccount" tables with their column defaults and unique  *)
(* indexes.  AuthService.register, AuthService.login,                      *)
(* AuthService.OAuthGoogleCallback and SeederService.seedUsers are async   *)
(* functions: every `await` on the database is one atomic step, and the    *)
(* steps of concurrent requests interleave.  AuthGuard.canActivate touches *)
(* no shared state and is one step.                                        *)
(***************************************************************************)
EXTENDS Integers, Sequences, FiniteSets, TLC

(* ------------------------------ bounds --------------------------------- *)

\* total number of service calls started in one behaviour
MaxCalls == 4

\* last week of the model's clock
MaxClock == 2

\* number of service calls started in a behaviour that also runs the guard
MaxGuardCalls == 2

\* number of service calls started in a behaviour that also enables 2FA
MaxTwoFACalls == 2

\* number of service calls started in a behaviour that also deactivates users
MaxDeactivateCalls == 2

\* number of service calls started in a behaviour that also posts to
\* /auth/refresh
MaxRefreshCalls == 3

(* ----------------------------- constants ------------------------------- *)

\* signOptions.expiresIn: '7d', in weeks (the unit of the clock)
TokenTTL == 1

\* bcrypt.hash(data.password, 12)
RegisterRounds == 12

\* bcrypt.hash(password, 10)
SeederRounds == 10

\* bcrypt uses only the first 72 bytes of its input
BcryptMaxBytes == 72

\* HTTP statuses of the NestJS exceptions and of a POST handler that returns
HTTP_CREATED == 201
HTTP_BAD_REQUEST == 400
HTTP_FORBIDDEN == 403
HTTP_NOT_FOUND == 404
HTTP_CONFLICT == 409
HTTP_INTERNAL == 500

(* ------------------------------ inputs --------------------------------- *)

\* the request slots that run concurrently
Procs == {"r1", "r2"}

\* an email is <<local part, domain>>; the second one is SUPERADMIN_EMAIL
EmailA == <<"a", "x.com">>
EmailRoot == <<"root", "x.com">>
Emails == {EmailA, EmailRoot}

\* passwords are byte strings; LongPw1 and LongPw2 are 73 bytes long and
\* differ in their last byte only
ShortPw == <<1>>
LongPw1 == [i \in 1..(BcryptMaxBytes + 1) |-> 1]
LongPw2 == [i \in 1..(BcryptMaxBytes + 1) |-> IF i = BcryptMaxBytes + 1 THEN 2 ELSE 1]
Passwords == {ShortPw, LongPw1, LongPw2}

\* Google subject ids
Subs == {"g1", "g2"}

\* JS undefined / SQL NULL for string-valued fields
Undefined == "undefined"
\* SQL NULL for the password column
NoPassword == <<>>
\* SQL NULL for lastLoginAt
NoTime == -1

\* the Role enum of the database
Roles == {"SUPER_ADMIN", "ADMIN", "SELLER", "CUSTOMER", "MODERATOR"}

\* configService.get('SUPERADMIN_...')
SUPERADMIN_USERNAME == "root"
SUPERADMIN_EMAIL == EmailRoot
SUPERADMIN_PASSWORD == ShortPw

VARIABLES
    users,      \* rows of table "user"
    oauth,      \* rows of table "oauthaccount"
    nextId,     \* source of fresh cuid() values
    now,        \* the clock, in weeks
    pc,         \* per request slot: the await the call is suspended at
    op,         \* per request slot: the operation being run
    arg,        \* per request slot: the argument of the call
    loc,        \* per request slot: the local variables of the call
    res,        \* per request slot: the response of the last call
    wrote,      \* per request slot: rows the running call has written
    snap,       \* per request slot: the history at the start of the call
    registered, \* history: successful register calls
    callbacks,  \* history: completed OAuthGoogleCallback calls
    issued,     \* history: every token signed so far
    calls,      \* number of calls started
    overlapped, \* history: some call started while another was running
    guardOut,   \* outcome of the last AuthGuard.canActivate
    refreshTokens \* rows of table "refresh_token"

vars == <<users, oauth, nextId, now, pc, op, arg, loc, res, wrote, snap,
          registered, callbacks, issued, calls, overlapped, guardOut, refreshTokens>>

(* ------------------------- bcrypt and the JWT -------------------------- *)

Min(a, b) == IF a < b THEN a ELSE b

\* the bytes of the password bcrypt looks at
BcryptKey(pw) == SubSeq(pw, 1, Min(Len(pw), BcryptMaxBytes))

\* bcrypt.hash(pw, rounds): a salted digest of the key
BcryptHash(pw, rounds, salt) == <<"$2b$", rounds, salt, BcryptKey(pw)>>

\* bcrypt.genSalt: a fresh salt for every hash
GenSalt(n) == "salt" \o ToString(n)

\* bcrypt.compare(pw, hash): re-hash with the salt and cost of the hash
BcryptCompare(pw, hash) ==
    /\ Len(hash) = 4
    /\ BcryptHash(pw, hash[2], hash[3]) = hash

NoToken == [key |-> "none"]

\* jwt.signAsync(payload) under JwtModule's secret and signOptions
SignAsync(payload, t) ==
    [key |-> "JWT_KEY", payload |-> payload, iat |-> t, exp |-> t + TokenTTL]

\* jwt.verifyAsync(token) resolves to the payload or throws
VerifyOk(token, t) ==
    /\ token.key = "JWT_KEY"
    /\ t < token.exp

\* property access on an object: undefined when the key is absent
Get(obj, k) == IF k \in DOMAIN obj THEN obj[k] ELSE Undefined

(* --------------------------- Identity Store ---------------------------- *)

Cuid(n) == "c" \o ToString(n)

NoUser == [id |-> Undefined]

\* CREATE TABLE "user": column defaults, overridden by the create data
UserRow(id, data) ==
    [id |-> id,
     email |-> data.email,
     username |-> data.username,
     password |-> IF "password" \in DOMAIN data THEN data.password ELSE NoPassword,
     role |-> IF "role" \in DOMAIN data THEN data.role ELSE "CUSTOMER",
     isEmailVerified |-> IF "isEmailVerified" \in DOMAIN data
                         THEN data.isEmailVerified ELSE FALSE,
     isTwoFA |-> FALSE,
     isActive |-> TRUE,
     lastLoginAt |-> NoTime]

\* the user table without its unique index on email
UserInsertOk_NoIndex(us, row) == TRUE

\* CREATE UNIQUE INDEX "user_email_key"
UserInsertOk(us, row) == \A u \in us : u.email # row.email

\* a lookup whose filter matches no row
FindByEmail_NoMatch(us, email) == NoUser

\* db.user.findFirst({ where: { email } })
FindByEmail(us, email) ==
    IF \E u \in us : u.email = email
    THEN CHOOSE u \in us : u.email = email
    ELSE NoUser

\* prisma.user.findFirst({ where: { username } })
FindByUsername(us, username) ==
    IF \E u \in us : u.username = username
    THEN CHOOSE u \in us : u.username = username
    ELSE NoUser

OAuthRow(id, userId, providerId) ==
    [id |-> id, provider |-> "Google", providerId |-> providerId, userId |-> userId]

\* the oauthaccount table without unique indexes
OAuthInsertOk_NoIndex(oas, row) == TRUE

\* the oauthaccount table with the (provider, providerId) index only
OAuthInsertOk_ProviderIdOnly(oas, row) ==
    \A a \in oas : ~(a.provider = row.provider /\ a.providerId = row.providerId)

\* CREATE UNIQUE INDEX "oauthaccount_provider_providerId_key" and
\* "oauthaccount_userId_provider_key"
OAuthInsertOk(oas, row) ==
    /\ \A a \in oas : ~(a.provider = row.provider /\ a.providerId = row.providerId)
    /\ \A a \in oas : ~(a.userId = row.userId /\ a.provider = row.provider)

\* the lookup without its include: no account is ever loaded
AccountsOf_NoInclude(oas, userId) == {}

\* include: { OAuthAccount: true }
AccountsOf(oas, userId) == {a \in oas : a.userId = userId}

(* ----------------------------- responses ------------------------------- *)

NoRes == [status |-> 0, exception |-> "none", message |-> "", token |-> NoToken]

Ok(token) ==
    [status |-> HTTP_CREATED, exception |-> "none", message |-> "", token |-> token]

Thrown(status, exception, message) ==
    [status |-> status, exception |-> exception, message |-> message, token |-> NoToken]

\* an unhandled unique-constraint error of the Prisma client
P2002 == Thrown(HTTP_INTERNAL, "PrismaClientKnownRequestError", "P2002")

NoArg == [none |-> TRUE]
NoLoc == [none |-> TRUE]

(* ------------------------------- Init ---------------------------------- *)

Init ==
    /\ users = {}
    /\ oauth = {}
    /\ nextId = 1
    /\ now = 0
    /\ pc = [p \in Procs |-> "idle"]
    /\ op = [p \in Procs |-> "none"]
    /\ arg = [p \in Procs |-> NoArg]
    /\ loc = [p \in Procs |-> NoLoc]
    /\ res = [p \in Procs |-> NoRes]
    /\ wrote = [p \in Procs |-> {}]
    /\ snap = [p \in Procs |-> [registered |-> {}, callbacks |-> {}]]
    /\ registered = {}
    /\ callbacks = {}
    /\ issued = {}
    /\ calls = 0
    /\ overlapped = FALSE
    /\ guardOut = [called |-> FALSE]
    /\ refreshTokens = {}

(* --------------------------- starting a call --------------------------- *)

Free(p) == pc[p] \in {"idle", "done"} /\ calls < MaxCalls

Begin(p, o, a, first) ==
    /\ Free(p)
    /\ calls' = calls + 1
    /\ overlapped' = (overlapped \/ \E q \in Procs \ {p} : pc[q] \notin {"idle", "done"})
    /\ op' = [op EXCEPT ![p] = o]
    /\ arg' = [arg EXCEPT ![p] = a]
    /\ pc' = [pc EXCEPT ![p] = first]
    /\ loc' = [loc EXCEPT ![p] = NoLoc]
    /\ res' = [res EXCEPT ![p] = NoRes]
    /\ wrote' = [wrote EXCEPT ![p] = {}]
    /\ snap' = [snap EXCEPT ![p] =
                    [registered |-> {r \in registered : r.email = a.email},
                     callbacks |-> {l \in callbacks : l.email = a.email /\ l.sub = Get(a, "sub")}]]
    /\ UNCHANGED <<users, oauth, nextId, now, registered, callbacks, issued, guardOut,
                   refreshTokens>>

\* the body of POST /auth/register: no validation pipe, any field passes
RegisterBodies ==
    {[email |-> EmailA, password |-> ShortPw, username |-> "alice"],
     [email |-> EmailA, password |-> LongPw1, username |-> "root"],
     [email |-> EmailRoot, password |-> LongPw1, username |-> "alice", role |-> "ADMIN"]}

StartRegister(p) == \E data \in RegisterBodies : Begin(p, "register", data, "reg_find")

StartLogin(p) ==
    \E data \in [email : Emails, password : Passwords] : Begin(p, "login", data, "login_find")

\* req.user as set by the Google passport strategy
StartOAuth(p) ==
    \E user \in [email : Emails, sub : Subs] : Begin(p, "oauth", user, "oa_find")

StartSeed(p) == Begin(p, "seed", [email |-> SUPERADMIN_EMAIL], "seed_find")

Finish(p, r) ==
    /\ pc' = [pc EXCEPT ![p] = "done"]
    /\ res' = [res EXCEPT ![p] = r]
    /\ issued' = IF r.token = NoToken THEN issued ELSE issued \cup {r.token}

(* ------------------------ AuthService.register ------------------------- *)

RegFind(p) ==
    /\ pc[p] = "reg_find"
    /\ LET findUser == FindByEmail(users, arg[p].email) IN
       IF findUser # NoUser
       THEN /\ Finish(p, Thrown(HTTP_CONFLICT, "ConflictException", "User already exists"))
            /\ UNCHANGED loc
       ELSE /\ pc' = [pc EXCEPT ![p] = "reg_create"]
            /\ loc' = [loc EXCEPT ![p] = [findUser |-> findUser]]
            /\ UNCHANGED <<res, issued>>
    /\ UNCHANGED <<users, oauth, nextId, now, op, arg, wrote, snap,
                   registered, callbacks, calls, overlapped, guardOut, refreshTokens>>

RegCreate(p) ==
    /\ pc[p] = "reg_create"
    /\ LET salt == GenSalt(nextId)
            hashedPassword == BcryptHash(arg[p].password, RegisterRounds, salt)
            data == [k \in DOMAIN arg[p] |->
                        IF k = "password" THEN hashedPassword ELSE arg[p][k]]
            user == UserRow(Cuid(nextId), data)
        IN
        IF UserInsertOk(users, user)
        THEN /\ users' = users \cup {user}
             /\ nextId' = nextId + 1
             /\ wrote' = [wrote EXCEPT ![p] = @ \cup {user.id}]
             /\ Finish(p, Ok(SignAsync([userId |-> user.id], now)))
             /\ registered' = registered \cup
                    {[email |-> arg[p].email, password |-> arg[p].password,
                      userId |-> user.id]}
        ELSE /\ Finish(p, P2002)
             /\ UNCHANGED <<users, nextId, wrote, registered>>
    /\ UNCHANGED <<oauth, now, op, arg, loc, snap, callbacks, calls, overlapped, guardOut, refreshTokens>>

(* -------------------------- AuthService.login -------------------------- *)

\* login that never looks at the outcome of bcrypt.compare
LoginResult_SkipCompare(find_user, data, t) ==
    IF find_user = NoUser
    THEN Thrown(HTTP_BAD_REQUEST, "BadRequestException", "User not found!")
    ELSE IF find_user.password = NoPassword
    THEN Thrown(HTTP_BAD_REQUEST, "BadRequestException", "password no set")
    ELSE Ok(SignAsync([userId |-> find_user.id], t))

LoginResult(find_user, data, t) ==
    IF find_user = NoUser
    THEN Thrown(HTTP_BAD_REQUEST, "BadRequestException", "User not found!")
    ELSE IF find_user.password = NoPassword
    THEN Thrown(HTTP_BAD_REQUEST, "BadRequestException", "password no set")
    ELSE IF ~BcryptCompare(data.password, find_user.password)
    THEN Thrown(HTTP_BAD_REQUEST, "BadRequestException", "Email or Password incorrect")
    ELSE Ok(SignAsync([userId |-> find_user.id], t))

Login(p) ==
    /\ pc[p] = "login_find"
    /\ LET find_user == FindByEmail(users, arg[p].email) IN
        /\ loc' = [loc EXCEPT ![p] = [find_user |-> find_user]]
        /\ Finish(p, LoginResult(find_user, arg[p], now))
    /\ UNCHANGED <<users, oauth, nextId, now, op, arg, wrote, snap,
                   registered, callbacks, calls, overlapped, guardOut, refreshTokens>>

(* ------------------- AuthService.OAuthGoogleCallback ------------------- *)

\* a || b on strings
OrElse(a, b) == IF a = Undefined THEN b ELSE a

\* user.email.split('@')[0]
LocalPart(email) == email[1]

OAuthFind(p) ==
    /\ pc[p] = "oa_find"
    /\ LET findUser == FindByEmail(users, arg[p].email)
           accounts == AccountsOf(oauth, findUser.id)
           findAccount == \E account \in accounts : account.provider = "Google"
       IN
       /\ loc' = [loc EXCEPT ![p] = [findUser |-> findUser, OAuthAccount |-> accounts]]
       /\ IF findUser = NoUser
          THEN /\ pc' = [pc EXCEPT ![p] = "oa_createUser"]
               /\ UNCHANGED <<res, issued, callbacks>>
          ELSE IF ~findAccount
          THEN /\ pc' = [pc EXCEPT ![p] = "oa_link"]
               /\ UNCHANGED <<res, issued, callbacks>>
          ELSE /\ Finish(p, Ok(SignAsync([userId |-> findUser.id], now)))
               /\ callbacks' = callbacks \cup
                      {[email |-> arg[p].email, sub |-> arg[p].sub, userId |-> findUser.id]}
    /\ UNCHANGED <<users, oauth, nextId, now, op, arg, wrote, snap,
                   registered, calls, overlapped, guardOut, refreshTokens>>

OAuthCreateUser(p) ==
    /\ pc[p] = "oa_createUser"
    /\ LET data == [email |-> arg[p].email,
                    username |-> OrElse(Get(arg[p], "username"), LocalPart(arg[p].email))]
           newUser == UserRow(Cuid(nextId), data)
       IN
       IF UserInsertOk(users, newUser)
       THEN /\ users' = users \cup {newUser}
            /\ nextId' = nextId + 1
            /\ wrote' = [wrote EXCEPT ![p] = @ \cup {newUser.id}]
            /\ loc' = [loc EXCEPT ![p] = [k \in DOMAIN @ \cup {"newUser"} |->
                                            IF k = "newUser" THEN newUser ELSE @[k]]]
            /\ pc' = [pc EXCEPT ![p] = "oa_createAccount"]
            /\ UNCHANGED <<res, issued, callbacks>>
       ELSE /\ Finish(p, P2002)
            /\ callbacks' = callbacks \cup
                   {[email |-> arg[p].email, sub |-> arg[p].sub, userId |-> Undefined]}
            /\ UNCHANGED <<users, nextId, wrote, loc>>
    /\ UNCHANGED <<oauth, now, op, arg, snap, registered, calls, overlapped, guardOut, refreshTokens>>

\* db.oAuthAccount.create for the user `owner`, then the token for that user
OAuthAccountCreate(p, owner) ==
    LET account == OAuthRow(Cuid(nextId), owner.id, arg[p].sub) IN
    IF OAuthInsertOk(oauth, account)
    THEN /\ oauth' = oauth \cup {account}
         /\ nextId' = nextId + 1
         /\ wrote' = [wrote EXCEPT ![p] = @ \cup {account.id}]
         /\ Finish(p, Ok(SignAsync([userId |-> owner.id], now)))
         /\ callbacks' = callbacks \cup
                {[email |-> arg[p].email, sub |-> arg[p].sub, userId |-> owner.id]}
    ELSE /\ Finish(p, P2002)
         /\ callbacks' = callbacks \cup
                {[email |-> arg[p].email, sub |-> arg[p].sub, userId |-> Undefined]}
         /\ UNCHANGED <<oauth, nextId, wrote>>

OAuthCreateAccount(p) ==
    /\ pc[p] = "oa_createAccount"
    /\ OAuthAccountCreate(p, loc[p].newUser)
    /\ UNCHANGED <<users, now, op, arg, loc, snap, registered, calls, overlapped, guardOut, refreshTokens>>

OAuthLink(p) ==
    /\ pc[p] = "oa_link"
    /\ OAuthAccountCreate(p, loc[p].findUser)
    /\ UNCHANGED <<users, now, op, arg, loc, snap, registered, calls, overlapped, guardOut, refreshTokens>>

(* ----------------------- SeederService.seedUsers ----------------------- *)

Logged(message) ==
    [status |-> 0, exception |-> "none", message |-> message, token |-> NoToken]

SeedFind(p) ==
    /\ pc[p] = "seed_find"
    /\ LET findExistsAdmin == FindByUsername(users, SUPERADMIN_USERNAME) IN
       /\ loc' = [loc EXCEPT ![p] = [findExistsAdmin |-> findExistsAdmin]]
       /\ IF findExistsAdmin = NoUser
          THEN /\ pc' = [pc EXCEPT ![p] = "seed_create"]
               /\ UNCHANGED <<res, issued>>
          ELSE Finish(p, Logged("Superadmin existed"))
    /\ UNCHANGED <<users, oauth, nextId, now, op, arg, wrote, snap,
                   registered, callbacks, calls, overlapped, guardOut, refreshTokens>>

SeedCreate(p) ==
    /\ pc[p] = "seed_create"
    /\ LET salt == GenSalt(nextId)
            hashedPassword == BcryptHash(SUPERADMIN_PASSWORD, SeederRounds, salt)
            admin == UserRow(Cuid(nextId),
                             [username |-> SUPERADMIN_USERNAME,
                              email |-> SUPERADMIN_EMAIL,
                              password |-> hashedPassword,
                              role |-> "SUPER_ADMIN"])
        IN
        IF UserInsertOk(users, admin)
        THEN /\ users' = users \cup {admin}
             /\ nextId' = nextId + 1
             /\ wrote' = [wrote EXCEPT ![p] = @ \cup {admin.id}]
             /\ Finish(p, Logged("SUPERADMIN CREATED"))
        ELSE \* onModuleInit catches the error and logs it
             /\ Finish(p, Logged("P2002"))
             /\ UNCHANGED <<users, nextId, wrote>>
    /\ UNCHANGED <<oauth, now, op, arg, loc, snap, registered, callbacks, calls, overlapped, guardOut, refreshTokens>>

(* ------------------------ AuthGuard.canActivate ------------------------ *)

\* a token signed with another secret
ForgedToken == [key |-> "forged", payload |-> [userId |-> Cuid(1)], iat |-> 0,
                exp |-> MaxClock + TokenTTL]

\* request.cookies when no cookie parser has run
NoCookies == [none |-> TRUE]

\* value?.split(' ')[1]
BearerOf(value) == IF Len(value) >= 2 THEN value[2] ELSE NoToken

NoHeaders == [x \in {} |-> <<>>]
EmptyCookies == [x \in {} |-> NoToken]

\* the requests the guard is tried on: the token in the Authorization
\* header, in the header as the guard spells it, in the cookie, or nowhere
Requests(tokens) ==
    {[headers |-> NoHeaders, cookies |-> NoCookies],
     [headers |-> NoHeaders, cookies |-> EmptyCookies]}
    \cup {[headers |-> [h \in {"authorization"} |-> <<"Bearer", t>>],
           cookies |-> NoCookies] : t \in tokens}
    \cup {[headers |-> [h \in {"authorization"} |-> <<"Bearer", t>>],
           cookies |-> EmptyCookies] : t \in tokens}
    \cup {[headers |-> [h \in {"authoriztion"} |-> <<"Bearer", t>>],
           cookies |-> NoCookies] : t \in tokens}
    \cup {[headers |-> NoHeaders, cookies |-> [c \in {"token"} |-> t]] : t \in tokens}

\* a guard whose message tells an expired token from the other failures
canActivate_RevealExpiry(request, t) ==
    LET fromHeader == IF "authoriztion" \in DOMAIN request.headers
                      THEN BearerOf(request.headers["authoriztion"])
                      ELSE NoToken
    IN
    IF fromHeader = NoToken /\ request.cookies = NoCookies
    THEN [status |-> HTTP_INTERNAL, exception |-> "TypeError", message |-> "",
          pass |-> FALSE, user |-> NoUser]
    ELSE LET token == IF fromHeader # NoToken THEN fromHeader
                      ELSE IF "token" \in DOMAIN request.cookies
                           THEN request.cookies["token"] ELSE NoToken
         IN
         IF token # NoToken /\ VerifyOk(token, t)
         THEN [status |-> HTTP_CREATED, exception |-> "none", message |-> "",
               pass |-> TRUE,
               user |-> [id |-> Get(token.payload, "id"),
                         role |-> Get(token.payload, "role")]]
         ELSE [status |-> HTTP_FORBIDDEN, exception |-> "ForbiddenException",
               message |-> IF token # NoToken /\ token.key = "JWT_KEY"
                           THEN "Token expired" ELSE "Token invalid",
               pass |-> FALSE, user |-> NoUser]

canActivate(request, t) ==
    LET fromHeader == IF "authoriztion" \in DOMAIN request.headers
                      THEN BearerOf(request.headers["authoriztion"])
                      ELSE NoToken
    IN
    IF fromHeader = NoToken /\ request.cookies = NoCookies
    THEN \* request.cookies.token on undefined, outside the try block
         [status |-> HTTP_INTERNAL, exception |-> "TypeError", message |-> "",
          pass |-> FALSE, user |-> NoUser]
    ELSE LET token == IF fromHeader # NoToken THEN fromHeader
                      ELSE IF "token" \in DOMAIN request.cookies
                           THEN request.cookies["token"] ELSE NoToken
         IN
         IF token # NoToken /\ VerifyOk(token, t)
         THEN [status |-> HTTP_CREATED, exception |-> "none", message |-> "",
               pass |-> TRUE,
               user |-> [id |-> Get(token.payload, "id"),
                         role |-> Get(token.payload, "role")]]
         ELSE [status |-> HTTP_FORBIDDEN, exception |-> "ForbiddenException",
               message |-> "Token invalid", pass |-> FALSE, user |-> NoUser]

Guard ==
    /\ \E request \in Requests(issued \cup {ForgedToken}) :
          guardOut' = [called |-> TRUE, request |-> request, at |-> now,
                       out |-> canActivate(request, now)]
    /\ UNCHANGED <<users, oauth, nextId, now, pc, op, arg, loc, res, wrote, snap,
                   registered, callbacks, issued, calls, overlapped, refreshTokens>>

\* a week passes
Tick ==
    /\ now < MaxClock
    /\ now' = now + 1
    /\ UNCHANGED <<users, oauth, nextId, pc, op, arg, loc, res, wrote, snap,
                   registered, callbacks, issued, calls, overlapped, guardOut, refreshTokens>>

(* ------------------------ two-factor enrolment ------------------------- *)

\* verifyTwoFactor(userId, code) with a correct code flips the enabled flag
verifyTwoFactor(id) ==
    /\ \E u \in users :
          /\ u.id = id
          /\ ~u.isTwoFA
          /\ users' = (users \ {u}) \cup {[u EXCEPT !.isTwoFA = TRUE]}
    /\ UNCHANGED <<oauth, nextId, now, pc, op, arg, loc, res, wrote, snap,
                   registered, callbacks, issued, calls, overlapped, guardOut, refreshTokens>>

(* ---------------------------- deactivation ----------------------------- *)

\* soft deactivation of a user: the active flag is cleared
deactivate(id) ==
    /\ \E u \in users :
          /\ u.id = id
          /\ u.isActive
          /\ users' = (users \ {u}) \cup {[u EXCEPT !.isActive = FALSE]}
    /\ UNCHANGED <<oauth, nextId, now, pc, op, arg, loc, res, wrote, snap,
                   registered, callbacks, issued, calls, overlapped, guardOut, refreshTokens>>

(* ------------------------- POST /auth/refresh -------------------------- *)

\* AuthController declares the routes POST /auth, /auth/callback-google,
\* /auth/login and /auth/register only: any other path under /auth is
\* answered by the router, whatever the body
Refresh(p) ==
    /\ Free(p)
    /\ \E t \in issued \cup {r.token : r \in refreshTokens} :
          arg' = [arg EXCEPT ![p] = [refreshToken |-> t]]
    /\ calls' = calls + 1
    /\ overlapped' = (overlapped \/ \E q \in Procs \ {p} : pc[q] \notin {"idle", "done"})
    /\ op' = [op EXCEPT ![p] = "refresh"]
    /\ pc' = [pc EXCEPT ![p] = "done"]
    /\ loc' = [loc EXCEPT ![p] = NoLoc]
    /\ wrote' = [wrote EXCEPT ![p] = {}]
    /\ snap' = [snap EXCEPT ![p] = [registered |-> {}, callbacks |-> {}]]
    /\ res' = [res EXCEPT ![p] =
                  Thrown(HTTP_NOT_FOUND, "NotFoundException", "Cannot POST /auth/refresh")]
    /\ UNCHANGED <<users, oauth, nextId, now, registered, callbacks, issued, guardOut,
                   refreshTokens>>

(* --------------------------- specifications ---------------------------- *)

Next ==
    \/ \E p \in Procs : StartRegister(p)
    \/ \E p \in Procs : StartLogin(p)
    \/ \E p \in Procs : StartOAuth(p)
    \/ \E p \in Procs : StartSeed(p)
    \/ \E p \in Procs : RegFind(p)
    \/ \E p \in Procs : RegCreate(p)
    \/ \E p \in Procs : Login(p)
    \/ \E p \in Procs : OAuthFind(p)
    \/ \E p \in Procs : OAuthCreateUser(p)
    \/ \E p \in Procs : OAuthCreateAccount(p)
    \/ \E p \in Procs : OAuthLink(p)
    \/ \E p \in Procs : SeedFind(p)
    \/ \E p \in Procs : SeedCreate(p)

\* the auth service over the Identity Store
Spec == Init /\ [][Next]_vars

\* the request slot that issues the tokens shown to the guard
GuardProc == CHOOSE p \in Procs : TRUE

\* the guard reads no shared state but the clock: the service calls that
\* issue the tokens are taken one after the other, in one slot, and time
\* passes and protected requests arrive between them
GuardNext ==
    \/ Next /\ calls' <= MaxGuardCalls /\ \A p \in Procs \ {GuardProc} : pc'[p] = "idle"
    \/ Guard /\ pc[GuardProc] \in {"idle", "done"}
    \/ Tick /\ pc[GuardProc] \in {"idle", "done"}

\* the auth service, protected requests and the passage of time
SpecGuard == Init /\ [][GuardNext]_vars

TwoFANext ==
    \/ Next /\ calls' <= MaxTwoFACalls
    \/ \E n \in 1..(2 * MaxTwoFACalls) : verifyTwoFactor(Cuid(n))

\* the auth service and users who enable two-factor authentication
SpecTwoFA == Init /\ [][TwoFANext]_vars

DeactivateNext ==
    \/ Next /\ calls' <= MaxDeactivateCalls
    \/ \E n \in 1..(2 * MaxDeactivateCalls) : deactivate(Cuid(n))

\* the auth service and users who are deactivated
SpecDeactivate == Init /\ [][DeactivateNext]_vars

RefreshNext ==
    \/ Next /\ calls' <= MaxRefreshCalls
    \/ \E p \in Procs : Refresh(p) /\ calls' <= MaxRefreshCalls

\* the auth service and clients that try to refresh their session
SpecRefresh == Init /\ [][RefreshNext]_vars

(* ------------------------------ properties ----------------------------- *)

UsersWithEmail(email) == {u \in users : u.email = email}

AccountsWithEmail(email) ==
    {a \in oauth : \E u \in UsersWithEmail(email) : a.userId = u.id}

IsConflict(r) ==
    /\ r.status = HTTP_CONFLICT
    /\ r.exception = "ConflictException"
    /\ r.token = NoToken

\* C1: once register has succeeded for an email, every register call started
\* later with that email never reaches the create, ends with Conflict and
\* writes nothing; the email keeps its single User row.
C1_RegisterConflict ==
    \A p \in Procs :
        (op[p] = "register" /\ snap[p].registered # {}) =>
            /\ pc[p] # "reg_create"
            /\ wrote[p] = {}
            /\ Cardinality(UsersWithEmail(arg[p].email)) = 1
            /\ pc[p] = "done" => IsConflict(res[p])

C1_Witness ==
    \E p \in Procs :
        /\ op[p] = "register"
        /\ snap[p].registered # {}
        /\ pc[p] = "done"
        /\ IsConflict(res[p])

\* C2: under any interleaving of register, OAuthGoogleCallback (and seeding)
\* the user table holds at most one row per email.
C2_OneUserPerEmail ==
    \A u1, u2 \in users : u1.email = u2.email => u1 = u2

\* a register and a callback raced on one email: both saw no user, one
\* created the row and the other's create failed on the unique index
C2_Witness ==
    \E p, q \in Procs :
        /\ op[p] = "register" /\ op[q] = "oauth"
        /\ arg[p].email = arg[q].email
        /\ pc[p] = "done" /\ pc[q] = "done"
        /\ loc[p].findUser = NoUser /\ loc[q].findUser = NoUser
        /\ \/ res[p] = P2002 /\ wrote[q] # {}
           \/ res[q] = P2002 /\ wrote[p] # {}

\* C3: the token of a successful login, presented to AuthGuard.canActivate in
\* the token cookie before it expires, is accepted and request.user carries
\* that user's id and current role.
C3_LoginTokenIdentity ==
    \A p \in Procs :
        (/\ guardOut.called
         /\ op[p] = "login" /\ pc[p] = "done" /\ res[p].token # NoToken
         /\ guardOut.request =
                [headers |-> NoHeaders, cookies |-> [c \in {"token"} |-> res[p].token]]
         /\ guardOut.at < res[p].token.exp) =>
            /\ guardOut.out.pass
            /\ \E u \in users :
                  /\ u.id = loc[p].find_user.id
                  /\ guardOut.out.user = [id |-> u.id, role |-> u.role]

\* C4: a login of a user whose two-factor flag is enabled never returns a
\* token.
C4_TwoFAGate ==
    \A p \in Procs :
        (/\ op[p] = "login" /\ pc[p] = "done"
         /\ loc[p].find_user # NoUser
         /\ loc[p].find_user.isTwoFA) =>
            res[p].token = NoToken

LoginUnknownEmail(p) ==
    op[p] = "login" /\ pc[p] = "done" /\ loc[p].find_user = NoUser

LoginWrongPassword(p) ==
    /\ op[p] = "login" /\ pc[p] = "done"
    /\ loc[p].find_user # NoUser
    /\ loc[p].find_user.password # NoPassword
    /\ ~BcryptCompare(arg[p].password, loc[p].find_user.password)

\* C5: a login with an unknown email fails without a token, and with a
\* client-facing status other than the one a wrong password gets.
C5_UnknownEmailDistinctStatus ==
    \A p \in Procs :
        LoginUnknownEmail(p) =>
            /\ res[p].token = NoToken
            /\ res[p].exception # "none"
            /\ \A q \in Procs :
                  LoginWrongPassword(q) =>
                      /\ res[q].status # res[p].status
                      /\ res[q].exception # res[p].exception

\* C6: a login of an existing user fails with status 400 (BadRequest) and no
\* token when the user has no password or bcrypt.compare rejects the supplied
\* one; otherwise it returns a token for that user.
C6_InvalidCredentials ==
    \A p \in Procs :
        (op[p] = "login" /\ pc[p] = "done" /\ loc[p].find_user # NoUser) =>
            LET u == loc[p].find_user IN
            IF u.password = NoPassword \/ ~BcryptCompare(arg[p].password, u.password)
            THEN /\ res[p].status = HTTP_BAD_REQUEST
                 /\ res[p].exception = "BadRequestException"
                 /\ res[p].token = NoToken
            ELSE /\ res[p].token # NoToken
                 /\ res[p].token.payload.userId = u.id

\* one login refused for an account without password, another for a mismatch
C6_Witness ==
    \E p, q \in Procs :
        /\ op[p] = "login" /\ pc[p] = "done"
        /\ loc[p].find_user # NoUser
        /\ loc[p].find_user.password = NoPassword
        /\ res[p].status = HTTP_BAD_REQUEST
        /\ LoginWrongPassword(q)
        /\ res[q].status = HTTP_BAD_REQUEST

\* C7: after register(email, pw) succeeded, a login(email, pw) started later
\* returns a token for the registered user, a login(email, pw2) with
\* pw2 # pw returns none, and the stored password is not the plaintext.
C7_RegisterThenLogin ==
    \A p \in Procs :
        (op[p] = "login" /\ pc[p] = "done") =>
            \A r \in snap[p].registered :
                /\ arg[p].password = r.password =>
                      /\ res[p].token # NoToken
                      /\ res[p].token.payload.userId = r.userId
                /\ arg[p].password # r.password => res[p].token = NoToken
                /\ \A u \in users : u.id = r.userId => u.password # r.password

\* C8, for calls that run one after the other: a callback that found no user
\* for the email ends having created one
\* User without password and with isEmailVerified = true, one OAuthAccount
\* (Google, sub) owned by it, and a token for it.
C8_OAuthNewUser ==
    \A p \in Procs :
        (~overlapped /\ op[p] = "oauth" /\ pc[p] = "done" /\ loc[p].findUser = NoUser) =>
            /\ res[p].token # NoToken
            /\ \E u \in users, a \in oauth :
                  /\ wrote[p] = {u.id, a.id}
                  /\ u.email = arg[p].email
                  /\ u.password = NoPassword
                  /\ u.isEmailVerified
                  /\ a = OAuthRow(a.id, u.id, arg[p].sub)
                  /\ res[p].token.payload.userId = u.id

LinkPath(p) ==
    /\ op[p] = "oauth"
    /\ pc[p] = "done"
    /\ loc[p].findUser # NoUser
    /\ \A a \in loc[p].OAuthAccount : a.provider # "Google"

\* C9 as stated, for calls that run one after the other: a callback that found
\* a user without Google account ends having written exactly one OAuthAccount (Google, sub) owned by that user,
\* no User, the password as it was, and with a token for that user.
C9_LinkAlways ==
    \A p \in Procs :
        (~overlapped /\ LinkPath(p)) =>
            /\ res[p].token # NoToken
            /\ res[p].token.payload.userId = loc[p].findUser.id
            /\ \E a \in oauth :
                  /\ wrote[p] = {a.id}
                  /\ a = OAuthRow(a.id, loc[p].findUser.id, arg[p].sub)
            /\ \E u \in users :
                  /\ u.id = loc[p].findUser.id
                  /\ u.password = loc[p].findUser.password

\* C9 (amended): the link step of a callback that found a user without Google
\* account never touches the user table; when neither unique index of the
\* oauthaccount table is hit it adds exactly the row (Google, sub, that user)
\* and returns a token for that user; otherwise it writes nothing and ends
\* with the unique-constraint error and no token.
C9_Link ==
    [][\A p \in Procs :
        (pc[p] = "oa_link" /\ pc'[p] = "done") =>
            LET owner == loc[p].findUser
                hit == \E a \in oauth :
                          \/ a.provider = "Google" /\ a.providerId = arg[p].sub
                          \/ a.provider = "Google" /\ a.userId = owner.id
            IN
            /\ users' = users
            /\ IF hit
               THEN /\ oauth' = oauth
                    /\ res'[p] = P2002
               ELSE /\ \E a \in oauth' :
                          /\ a \notin oauth
                          /\ oauth' = oauth \cup {a}
                          /\ a = OAuthRow(a.id, owner.id, arg[p].sub)
                          /\ wrote'[p] = {a.id}
                    /\ res'[p].token # NoToken
                    /\ res'[p].token.payload.userId = owner.id]_vars

\* a user registered by password was linked by a later callback
C9_Witness ==
    \E p \in Procs :
        /\ LinkPath(p)
        /\ loc[p].findUser.password # NoPassword
        /\ res[p].token # NoToken
        /\ res[p].token.payload.userId = loc[p].findUser.id
        /\ \E a \in oauth : wrote[p] = {a.id} /\ a.userId = loc[p].findUser.id
        /\ \E u \in users : u.id = loc[p].findUser.id /\ u.password = loc[p].findUser.password

\* what C10 promises of a callback with the (email, sub) of earlier ones
SecondCallbackIsNoOp(p, earlier) ==
    /\ wrote[p] = {}
    /\ pc[p] \notin {"oa_createUser", "oa_createAccount", "oa_link"}
    /\ Cardinality(UsersWithEmail(arg[p].email)) = 1
    /\ Cardinality(AccountsWithEmail(arg[p].email)) = 1
    /\ pc[p] = "done" =>
          /\ res[p].token # NoToken
          /\ \A l \in earlier : res[p].token.payload.userId = l.userId

\* C10 as stated, for calls that run one after the other: a callback started
\* after another callback with the same email and subject id has completed
\* writes nothing, leaves one User and one
\* OAuthAccount for the email, and returns a token for the same user.
C10_IdempotentAlways ==
    \A p \in Procs :
        (~overlapped /\ op[p] = "oauth" /\ snap[p].callbacks # {}) =>
            SecondCallbackIsNoOp(p, snap[p].callbacks)

\* C10 (amended): a callback started after another callback with the same
\* email and subject id has returned a token writes nothing, leaves one User
\* and one OAuthAccount for the email, and returns a token for the same user.
C10_Idempotent ==
    \A p \in Procs :
        LET earlier == {l \in snap[p].callbacks : l.userId # Undefined} IN
        (op[p] = "oauth" /\ earlier # {}) => SecondCallbackIsNoOp(p, earlier)

\* the second callback follows a first one that created the user
C10_Witness ==
    \E p \in Procs :
        /\ op[p] = "oauth" /\ pc[p] = "done"
        /\ \E l \in snap[p].callbacks : l.userId # Undefined
        /\ res[p].token # NoToken
        /\ wrote[p] = {}
        /\ \E u \in UsersWithEmail(arg[p].email) : u.password = NoPassword

\* C11: a callback for the email of a deactivated user ends with an error and
\* without a token.
C11_DeactivatedNoToken ==
    \A p \in Procs :
        (/\ op[p] = "oauth" /\ pc[p] = "done"
         /\ loc[p].findUser # NoUser
         /\ ~loc[p].findUser.isActive) =>
            /\ res[p].token = NoToken
            /\ res[p].exception # "none"

\* C12: every User row has a password or at least one OAuthAccount, in every
\* state, the ones between two writes of a call included.
C12_PasswordOrAccount ==
    \A u \in users :
        \/ u.password # NoPassword
        \/ \E a \in oauth : a.userId = u.id

\* C13: a callback that ended without a token has left no User row of its
\* own in the store.
C13_AllOrNothing ==
    \A p \in Procs :
        (op[p] = "oauth" /\ pc[p] = "done" /\ res[p].token = NoToken) =>
            \A u \in users : u.id \notin wrote[p]

\* C14: the oauthaccount table holds at most one row per (provider,
\* providerId) and at most one row per (user, provider), under any
\* interleaving of the callbacks.
C14_OAuthUnique ==
    \A a, b \in oauth :
        (\/ a.provider = b.provider /\ a.providerId = b.providerId
         \/ a.userId = b.userId /\ a.provider = b.provider) => a = b

\* two callbacks raced to link the same user: both loaded it without Google
\* account, one linked it and the other's insert hit the unique index
C14_Witness ==
    \E p, q \in Procs :
        /\ p # q
        /\ LinkPath(p) /\ LinkPath(q)
        /\ loc[p].findUser.id = loc[q].findUser.id
        /\ res[p].token # NoToken
        /\ \E a \in oauth : a.id \in wrote[p]
        /\ res[q] = P2002

\* the tokens a request carries, wherever it carries them
CarriedTokens(request) ==
    {request.headers[h][2] : h \in DOMAIN request.headers}
    \cup (IF "token" \in DOMAIN request.cookies THEN {request.cookies["token"]} ELSE {})

IsForbidden(out) ==
    /\ ~out.pass
    /\ out.status = HTTP_FORBIDDEN
    /\ out.exception = "ForbiddenException"

\* C15: a request without any token (no authorization header, no token
\* cookie, with or without a cookies object) and a request whose token fails
\* verification are refused with Forbidden.
C15_FailsClosed ==
    guardOut.called =>
        LET request == guardOut.request IN
        (\/ CarriedTokens(request) = {}
         \/ \E t \in CarriedTokens(request) : ~VerifyOk(t, guardOut.at)) =>
            IsForbidden(guardOut.out)

\* C16: a request whose Authorization header carries "Bearer" and a token the
\* service issued and that has not expired, and that has no token cookie,
\* passes the guard.
C16_HeaderTokenPasses ==
    guardOut.called =>
        LET request == guardOut.request IN
        (/\ DOMAIN request.headers = {"authorization"}
         /\ "token" \notin DOMAIN request.cookies
         /\ \E t \in issued :
               /\ request.headers["authorization"] = <<"Bearer", t>>
               /\ VerifyOk(t, guardOut.at)) =>
            guardOut.out.pass

\* the tokens that fail verification now: forged ones and expired ones
FailingTokens == {t \in issued \cup {ForgedToken} : ~VerifyOk(t, now)}

\* what the caller sees of a guard outcome
Visible(out) == <<out.pass, out.status, out.exception, out.message>>

\* C17: the outcome of the guard does not depend on why the token fails: two
\* requests that carry failing tokens in the same place get the same status
\* and message, and a failing token the guard verifies gets Forbidden
\* "Token invalid".
C17_SameOutcome ==
    /\ \A r1, r2 \in Requests(FailingTokens) :
          (/\ DOMAIN r1.headers = DOMAIN r2.headers
           /\ DOMAIN r1.cookies = DOMAIN r2.cookies) =>
              Visible(canActivate(r1, now)) = Visible(canActivate(r2, now))
    /\ (/\ guardOut.called
        /\ guardOut.request.headers = NoHeaders
        /\ "token" \in DOMAIN guardOut.request.cookies
        /\ ~VerifyOk(guardOut.request.cookies["token"], guardOut.at)) =>
           /\ IsForbidden(guardOut.out)
           /\ guardOut.out.message = "Token invalid"

\* the guard has refused an expired token of the service, and a forged token
\* fails as well
C17_Witness ==
    /\ guardOut.called
    /\ guardOut.request.headers = NoHeaders
    /\ "token" \in DOMAIN guardOut.request.cookies
    /\ guardOut.request.cookies["token"] \in issued
    /\ guardOut.at >= guardOut.request.cookies["token"].exp
    /\ IsForbidden(guardOut.out)
    /\ ForgedToken \in FailingTokens

\* C18: every login, register and callback that returned a token has created
\* a RefreshToken row owned by the user of the token and returned its value.
C18_RefreshTokenIssued ==
    \A p \in Procs :
        (/\ op[p] \in {"login", "register", "oauth"}
         /\ pc[p] = "done"
         /\ res[p].token # NoToken) =>
            \E r \in refreshTokens :
                /\ r.userId = res[p].token.payload.userId
                /\ Get(res[p], "refreshToken") = r.token

\* C19: of two refresh calls that present the same token at most one
\* succeeds, and the other one fails with InvalidToken (status 401).
C19_RefreshSingleUse ==
    \A p, q \in Procs :
        (/\ p # q
         /\ op[p] = "refresh" /\ op[q] = "refresh"
         /\ pc[p] = "done" /\ pc[q] = "done"
         /\ arg[p].refreshToken = arg[q].refreshToken) =>
            /\ ~(res[p].exception = "none" /\ res[q].exception = "none")
            /\ res[p].status = 401 \/ res[q].status = 401

\* C20: after a login that returned a token the user's lastLoginAt is set;
\* after a failed login it is what the login found.
C20_LastLogin ==
    \A p \in Procs :
        (op[p] = "login" /\ pc[p] = "done" /\ loc[p].find_user # NoUser) =>
            \A u \in users :
                u.id = loc[p].find_user.id =>
                    IF res[p].token # NoToken
                    THEN u.lastLoginAt # NoTime
                    ELSE u.lastLoginAt = loc[p].find_user.lastLoginAt

\* C21: every user that register created has role CUSTOMER and the default
\* flags, whatever the body carried, and every user of the store that is not
\* the seeded super-admin has role CUSTOMER.
C21_RegisterCustomerOnly ==
    /\ \A r \in registered : \A u \in users :
          u.id = r.userId =>
              /\ u.role = "CUSTOMER"
              /\ u.isActive
              /\ ~u.isTwoFA
              /\ ~u.isEmailVerified
    /\ \A u \in users :
          \/ u.role = "CUSTOMER"
          \/ /\ u.role = "SUPER_ADMIN"
             /\ u.username = SUPERADMIN_USERNAME
             /\ u.email = SUPERADMIN_EMAIL

\* C22: whenever a callback has returned a token for user U on an identity
\* with subject id S, the store holds an OAuthAccount (Google, S) owned by U.
C22_TokenOnlyForLinkedSubject ==
    \A p \in Procs :
        (op[p] = "oauth" /\ pc[p] = "done" /\ res[p].token # NoToken) =>
            \E a \in oauth :
                /\ a.provider = "Google"
                /\ a.providerId = arg[p].sub
                /\ a.userId = res[p].token.payload.userId

\* the users that the seeder created: they have a password and no register
\* call created them
Seeded ==
    {u \in users : u.password # NoPassword /\ u.id \notin {r.userId : r \in registered}}

====
